---------------------------- MODULE Spec2Model ----------------------------
(***************************************************************************)
(* Model of the two notebook scripts of .github/scripts:                   *)
(*   preprocess_notebook.py      the rewriter (input() -> None, import os)  *)
(*   validate_notebook_format.py the fragment-join validator and its CLI    *)
(* A Python str is a sequence of one-character strings, so that the        *)
(* regular expressions, strip/split/join and the substring tests are        *)
(* computed character by character as the scripts compute them.            *)
(***************************************************************************)
EXTENDS Integers, Sequences, FiniteSets, TLC

VARIABLES
    \* preprocess_notebook
    input,              \* the document json.load returned (kept for reference)
    notebook,           \* the document being mutated in place
    output1,            \* the document the first run wrote
    run,                \* 1: the run on the input, 2: the run on its own output
    cell_i,             \* position of the `for cell in notebook['cells']` loop
    needs_os_import,
    os_import_added,
    n_inserted,         \* how many times 'import os\n' was inserted in this run
    mutated,            \* indices of the cells whose cell['source'] was assigned
    rpc,
    \* validate_notebook_source_format
    cells,              \* nb.get('cells', [])
    cell_idx,
    errors,
    vpc,
    \* main of validate_notebook_format.py
    notebook_files,
    skip_structure_check,
    file_i,
    all_valid,
    total_errors,
    reports,            \* what was printed for each file, in order
    exit_status,
    mpc

rvars == <<input, notebook, output1, run, cell_i, needs_os_import,
           os_import_added, n_inserted, mutated, rpc>>
vvars == <<cells, cell_idx, errors, vpc>>
mvars == <<notebook_files, skip_structure_check, file_i, all_valid,
           total_errors, reports, exit_status, mpc>>
vars == <<rvars, vvars, mvars>>

---------------------------------------------------------------------------
\* Bounds of the model.

\* cells per document given to the rewriter
MaxCells == 2

\* cells per document given to the validator
MaxVCells == 2

\* fragments per document given to the validator (over all its cells)
MaxFrags == 4

\* files on the validator's command line
MaxFiles == 3

\* diagnostics one file's format validation returns
MaxDiags == 2

---------------------------------------------------------------------------
\* Python str operations.

\* str.strip()/rstrip()/lstrip() with no argument and the regex class \s
IsSpace(c) == c \in {" ", "\t", "\n", "\r", "\f"}

Letters == {"a","b","c","d","e","f","g","h","i","j","k","l","m","n","o","p","q",
            "r","s","t","u","v","w","x","y","z",
            "A","B","C","D","E","F","G","H","I","J","K","L","M","N","O","P","Q",
            "R","S","T","U","V","W","X","Y","Z"}

Digits == {"0","1","2","3","4","5","6","7","8","9"}

\* the regex class \w
IsWord(c) == c \in Letters \cup Digits \cup {"_"}

RECURSIVE rstrip(_)
rstrip(s) ==
    IF s # <<>> /\ IsSpace(s[Len(s)]) THEN rstrip(SubSeq(s, 1, Len(s) - 1)) ELSE s

RECURSIVE lstrip(_)
lstrip(s) == IF s # <<>> /\ IsSpace(s[1]) THEN lstrip(Tail(s)) ELSE s

strip(s) == lstrip(rstrip(s))

endswith(s, suffix) ==
    /\ Len(suffix) <= Len(s)
    /\ SubSeq(s, Len(s) - Len(suffix) + 1, Len(s)) = suffix

\* s[i:].startswith(prefix), i counted from 1
LitAt(s, i, prefix) ==
    /\ i + Len(prefix) - 1 <= Len(s)
    /\ SubSeq(s, i, i + Len(prefix) - 1) = prefix

startswith(s, prefix) == LitAt(s, 1, prefix)

\* sub in s
Contains(s, sub) == \E i \in 1..(Len(s) + 1) : LitAt(s, i, sub)

UpperCase == <<"A","B","C","D","E","F","G","H","I","J","K","L","M","N","O","P","Q","R","S","T","U","V","W","X","Y","Z">>
LowerCase == <<"a","b","c","d","e","f","g","h","i","j","k","l","m","n","o","p","q","r","s","t","u","v","w","x","y","z">>

LowerChar(c) ==
    IF \E k \in 1..Len(UpperCase) : UpperCase[k] = c
    THEN LowerCase[CHOOSE k \in 1..Len(UpperCase) : UpperCase[k] = c]
    ELSE c

lower(s) == [k \in 1..Len(s) |-> LowerChar(s[k])]

\* ''.join(fragments)
RECURSIVE join(_)
join(fragments) ==
    IF fragments = <<>> THEN <<>> ELSE Head(fragments) \o join(Tail(fragments))

\* Line boundaries of str.splitlines that the alphabet has: \n, \r and \r\n.
\* Length of the line (with its terminator) that starts at position i.
RECURSIVE LineLen(_, _)
LineLen(s, i) ==
    IF i > Len(s) THEN 0
    ELSE IF s[i] = "\n" THEN 1
    ELSE IF s[i] = "\r" THEN (IF i < Len(s) /\ s[i + 1] = "\n" THEN 2 ELSE 1)
    ELSE 1 + LineLen(s, i + 1)

\* s.splitlines(keepends=True)
RECURSIVE splitlines(_)
splitlines(s) ==
    IF s = <<>> THEN <<>>
    ELSE LET n == LineLen(s, 1)
         IN  <<SubSeq(s, 1, n)>> \o splitlines(SubSeq(s, n + 1, Len(s)))

\* Number of characters before the first "\n" of s from position i on.
RECURSIVE UntilNewline(_, _)
UntilNewline(s, i) ==
    IF i > Len(s) \/ s[i] = "\n" THEN 0 ELSE 1 + UntilNewline(s, i + 1)

\* s.split('\n')
RECURSIVE split_newline(_)
split_newline(s) ==
    LET n == UntilNewline(s, 1)
    IN  IF n = Len(s) THEN <<s>>
        ELSE <<SubSeq(s, 1, n)>> \o split_newline(SubSeq(s, n + 2, Len(s)))

\* Lengths of the maximal runs a greedy \w+, \s* or [^c]* consumes from i.
RECURSIVE RunWord(_, _)
RunWord(s, i) == IF i <= Len(s) /\ IsWord(s[i]) THEN 1 + RunWord(s, i + 1) ELSE 0

RECURSIVE RunSpace(_, _)
RunSpace(s, i) == IF i <= Len(s) /\ IsSpace(s[i]) THEN 1 + RunSpace(s, i + 1) ELSE 0

RECURSIVE RunNot(_, _, _)
RunNot(s, i, c) == IF i <= Len(s) /\ s[i] # c THEN 1 + RunNot(s, i + 1, c) ELSE 0

---------------------------------------------------------------------------
\* preprocess_notebook: the two patterns.

IMPORT_OS == <<"i","m","p","o","r","t"," ","o","s">>
FROM_OS_IMPORT == <<"f","r","o","m"," ","o","s"," ","i","m","p","o","r","t">>
IMPORT == <<"i","m","p","o","r","t">>
IMPORT_OS_LINE == <<"i","m","p","o","r","t"," ","o","s","\n">>
INPUT_OPEN == <<"i","n","p","u","t","(">>
NONE_ASSIGN == <<" ","="," ","N","o","n","e">>
ENVIRON_OPEN == <<"o","s",".","e","n","v","i","r","o","n","[","\"">>
ENVIRON_CLOSE == <<"\"","]">>

\* pattern1 = (\w+)\s*=\s*input\([^)]+\)  tried at position i: the position
\* after the match and the group, or stop = 0 when it does not match there.
\* Each quantified class is followed by a character outside it, so the
\* greedy run is the only length backtracking can settle on.
Match1(s, i) ==
    LET w  == RunWord(s, i)
        eq == i + w + RunSpace(s, i + w)
        fn == eq + 1 + RunSpace(s, eq + 1)
        ar == fn + Len(INPUT_OPEN)
        n  == RunNot(s, ar, ")")
    IN  IF /\ w >= 1
           /\ LitAt(s, eq, <<"=">>)
           /\ LitAt(s, fn, INPUT_OPEN)
           /\ n >= 1
           /\ LitAt(s, ar + n, <<")">>)
        THEN [stop |-> ar + n + 1, group |-> SubSeq(s, i, i + w - 1)]
        ELSE [stop |-> 0, group |-> <<>>]

\* pattern2 = os\.environ\["(\w+)"\]\s*=\s*"[^"]*"
Match2(s, i) ==
    LET nm == i + Len(ENVIRON_OPEN)
        w  == RunWord(s, nm)
        cl == nm + w
        eq == cl + Len(ENVIRON_CLOSE) + RunSpace(s, cl + Len(ENVIRON_CLOSE))
        q  == eq + 1 + RunSpace(s, eq + 1)
        n  == RunNot(s, q + 1, "\"")
    IN  IF /\ LitAt(s, i, ENVIRON_OPEN)
           /\ w >= 1
           /\ LitAt(s, cl, ENVIRON_CLOSE)
           /\ LitAt(s, eq, <<"=">>)
           /\ LitAt(s, q, <<"\"">>)
           /\ LitAt(s, q + 1 + n, <<"\"">>)
        THEN [stop |-> q + n + 2, group |-> SubSeq(s, nm, nm + w - 1)]
        ELSE [stop |-> 0, group |-> <<>>]

\* re.search(pattern1, s), re.search(pattern2, s)
Search1(s) == \E i \in 1..Len(s) : Match1(s, i).stop > 0
Search2(s) == \E i \in 1..Len(s) : Match2(s, i).stop > 0

\* re.sub(pattern1, r'\1 = None', s): leftmost matches, left to right,
\* not overlapping
RECURSIVE Sub1From(_, _)
Sub1From(s, i) ==
    IF i > Len(s) THEN <<>>
    ELSE LET m == Match1(s, i)
         IN  IF m.stop > 0
             THEN m.group \o NONE_ASSIGN \o Sub1From(s, m.stop)
             ELSE <<s[i]>> \o Sub1From(s, i + 1)

Sub1(s) == Sub1From(s, 1)

\* re.sub(pattern2, r'os.environ["\1"] = None', s)
RECURSIVE Sub2From(_, _)
Sub2From(s, i) ==
    IF i > Len(s) THEN <<>>
    ELSE LET m == Match2(s, i)
         IN  IF m.stop > 0
             THEN ENVIRON_OPEN \o m.group \o ENVIRON_CLOSE \o NONE_ASSIGN
                      \o Sub2From(s, m.stop)
             ELSE <<s[i]>> \o Sub2From(s, i + 1)

Sub2(s) == Sub2From(s, 1)

\* the groups of the successive pattern1 matches re.sub replaces
RECURSIVE Groups1From(_, _)
Groups1From(s, i) ==
    IF i > Len(s) THEN <<>>
    ELSE LET m == Match1(s, i)
         IN  IF m.stop > 0 THEN <<m.group>> \o Groups1From(s, m.stop)
             ELSE Groups1From(s, i + 1)

---------------------------------------------------------------------------
\* preprocess_notebook: the body of the loop over the cells.

\* 'import os' in source_text or 'from os import' in source_text
ImportsOs(source_text) ==
    Contains(source_text, IMPORT_OS) \/ Contains(source_text, FROM_OS_IMPORT)

\* a mutation of MayInsert: the flag os_import_added is not consulted
MayInsert_IgnoreAdded(needs, added) == needs

\* needs_os_import and not os_import_added
MayInsert(needs, added) == needs /\ ~added

\* list.insert(idx, x), idx counted from 0
ListInsert(lines, idx, x) ==
    SubSeq(lines, 1, idx) \o <<x>> \o SubSeq(lines, idx + 1, Len(lines))

\* the last value the loop over enumerate(cell['source']) leaves in import_idx
ImportIdx(lines) ==
    LET hits == {i \in 1..Len(lines) : Contains(lower(lines[i]), IMPORT)}
    IN  IF hits = {} THEN 0 ELSE CHOOSE i \in hits : \A j \in hits : j <= i

\* the branch `if re.search(pattern1, source_text)`
Branch1(source, source_text, needs, added) ==
    IF Search1(source_text)
    THEN LET split == splitlines(Sub1(source_text))
             first_line == IF split # <<>> THEN split[1] ELSE <<>>
         IN  IF MayInsert(needs, added)
             THEN [source |-> IF Contains(lower(first_line), IMPORT)
                              THEN ListInsert(split, ImportIdx(split), IMPORT_OS_LINE)
                              ELSE <<IMPORT_OS_LINE>> \o split,
                   added |-> TRUE, inserted |-> 1, assigned |-> TRUE]
             ELSE [source |-> split, added |-> added, inserted |-> 0,
                   assigned |-> TRUE]
    ELSE [source |-> source, added |-> added, inserted |-> 0, assigned |-> FALSE]

\* the branch `if re.search(pattern2, source_text)`, entered with the cell as
\* the first branch left it; it substitutes in source_text again
Branch2(b1, source_text, needs) ==
    IF Search2(source_text)
    THEN LET split == splitlines(Sub2(source_text))
         IN  IF MayInsert(needs, b1.added)
             THEN IF ~Contains(source_text, IMPORT_OS)
                  THEN [source |-> <<IMPORT_OS_LINE>> \o split, added |-> TRUE,
                        inserted |-> b1.inserted + 1, assigned |-> TRUE]
                  ELSE [source |-> split, added |-> TRUE,
                        inserted |-> b1.inserted, assigned |-> TRUE]
             ELSE [source |-> split, added |-> b1.added,
                   inserted |-> b1.inserted, assigned |-> TRUE]
    ELSE b1

\* one iteration on a code cell
ProcessCell(cell, needs, added) ==
    LET source_text == join(cell.source)
        needs2 == IF ImportsOs(source_text) THEN FALSE ELSE needs
        b2 == Branch2(Branch1(cell.source, source_text, needs2, added),
                      source_text, needs2)
    IN  [source |-> b2.source, needs |-> needs2, added |-> b2.added,
         inserted |-> b2.inserted, assigned |-> b2.assigned]

---------------------------------------------------------------------------
\* Documents given to the rewriter.

\* x = input("p")
SrcInput == <<<<"x"," ","="," ","i","n","p","u","t","(","\"","p","\"",")","\n">>>>
\* one line, no terminator, an import before the assignment
SrcImportInline == <<<<"i","m","p","o","r","t"," ","a",";"," ","y"," ","="," ","i","n","p","u","t","(","b",")">>>>
\* both patterns in one cell
SrcBoth == <<<<"k"," ","="," ","i","n","p","u","t","(","a",")","\n">>, <<"o","s",".","e","n","v","i","r","o","n","[","\"","K","\"","]"," ","="," ","\"","v","\"","\n">>>>
SrcEnviron == <<<<"o","s",".","e","n","v","i","r","o","n","[","\"","K","\"","]"," ","="," ","\"","v","\"">>>>
SrcHasOs == <<<<"i","m","p","o","r","t"," ","o","s","\n">>, <<"x"," ","="," ","i","n","p","u","t","(","a",")","\n">>>>
SrcPlain == <<<<"y"," ","="," ","1","\n">>>>
SrcImportFirst == <<<<"i","m","p","o","r","t"," ","r","e","\n">>, <<"x"," ","="," ","i","n","p","u","t","(","a",")","\r","\n">>, <<"y"," ","="," ","1">>>>

CellSources ==
    {SrcInput, SrcImportInline, SrcBoth, SrcEnviron, SrcHasOs, SrcPlain,
     SrcImportFirst}

RCells ==
    [cell_type : {"code"}, source : CellSources]
        \cup [cell_type : {"markdown"}, source : {SrcInput}]

RDocuments == UNION {[1..n -> RCells] : n \in 0..MaxCells}

VIdle ==
    /\ cells = <<>> /\ cell_idx = 0 /\ errors = <<>> /\ vpc = "idle"

MIdle ==
    /\ notebook_files = <<>> /\ skip_structure_check = FALSE /\ file_i = 0
    /\ all_valid = TRUE /\ total_errors = 0 /\ reports = <<>>
    /\ exit_status = -1 /\ mpc = "idle"

RInit ==
    /\ input \in RDocuments
    /\ notebook = input
    /\ output1 = <<>>
    /\ run = 1
    /\ cell_i = 1
    /\ needs_os_import = TRUE
    /\ os_import_added = FALSE
    /\ n_inserted = 0
    /\ mutated = {}
    /\ rpc = "loop"
    /\ VIdle
    /\ MIdle

\* `if cell['cell_type'] != 'code': continue`
SkipCell ==
    /\ rpc = "loop"
    /\ cell_i <= Len(notebook)
    /\ notebook[cell_i].cell_type # "code"
    /\ cell_i' = cell_i + 1
    /\ UNCHANGED <<input, notebook, output1, run, needs_os_import,
                   os_import_added, n_inserted, mutated>>
    /\ UNCHANGED rpc

RewriteCell ==
    /\ rpc = "loop"
    /\ cell_i <= Len(notebook)
    /\ notebook[cell_i].cell_type = "code"
    /\ LET r == ProcessCell(notebook[cell_i], needs_os_import, os_import_added)
       IN  /\ notebook' = [notebook EXCEPT ![cell_i].source = r.source]
           /\ needs_os_import' = r.needs
           /\ os_import_added' = r.added
           /\ n_inserted' = n_inserted + r.inserted
           /\ mutated' = IF r.assigned THEN mutated \cup {cell_i} ELSE mutated
    /\ cell_i' = cell_i + 1
    /\ UNCHANGED <<input, output1, run, rpc>>

\* json.dump(notebook, f, ...) once the loop is over
Save ==
    /\ rpc = "loop"
    /\ cell_i > Len(notebook)
    /\ rpc' = "saved"
    /\ output1' = IF run = 1 THEN notebook ELSE output1
    /\ UNCHANGED <<input, notebook, run, cell_i, needs_os_import,
                   os_import_added, n_inserted, mutated>>

\* the script run again, on the file the first run wrote
Rerun ==
    /\ rpc = "saved"
    /\ run = 1
    /\ run' = 2
    /\ notebook' = output1
    /\ cell_i' = 1
    /\ needs_os_import' = TRUE
    /\ os_import_added' = FALSE
    /\ n_inserted' = 0
    /\ mutated' = {}
    /\ rpc' = "loop"
    /\ UNCHANGED <<input, output1>>

RNext ==
    \/ SkipCell /\ UNCHANGED <<vvars, mvars>>
    \/ RewriteCell /\ UNCHANGED <<vvars, mvars>>
    \/ Save /\ UNCHANGED <<vvars, mvars>>
    \/ Rerun /\ UNCHANGED <<vvars, mvars>>

SpecRewrite == RInit /\ [][RNext]_vars

---------------------------------------------------------------------------
\* Properties of the rewriter.

CodeCell(doc, i) == doc[i].cell_type = "code"

\* the code cells of doc in which pattern1 or pattern2 matches
ReplacedCells(doc) ==
    {i \in 1..Len(doc) :
        /\ CodeCell(doc, i)
        /\ Search1(join(doc[i].source)) \/ Search2(join(doc[i].source))}

NoCellImportsOs(doc) ==
    \A i \in 1..Len(doc) : CodeCell(doc, i) => ~ImportsOs(join(doc[i].source))

FirstRunSaved == rpc = "saved" /\ run = 1

\* a line terminator of splitlines closes the fragment
Terminated(fragment) ==
    fragment # <<>> /\ fragment[Len(fragment)] \in {"\n", "\r"}

\* C1: when the first run is over, every code cell whose joined source held
\* `X = input(...)` holds `X = None` for each such X and no assignment of
\* an input(...) call any more, whatever else the cell holds.
C1_InputReplaced ==
    FirstRunSaved =>
        \A i \in 1..Len(input) :
            (CodeCell(input, i) /\ Search1(join(input[i].source))) =>
                LET groups == Groups1From(join(input[i].source), 1)
                    out == join(notebook[i].source)
                IN  /\ \A g \in 1..Len(groups) :
                           Contains(out, groups[g] \o NONE_ASSIGN)
                    /\ ~Search1(out)

\* C2: when the first run is over, a document in which a replacement
\* happened and in which no cell imports os has the line 'import os' in
\* the first cell where a replacement happened.
C2_ImportInserted ==
    (FirstRunSaved /\ ReplacedCells(input) # {} /\ NoCellImportsOs(input)) =>
        LET first == CHOOSE i \in ReplacedCells(input) :
                         \A j \in ReplacedCells(input) : i <= j
        IN  \E k \in 1..Len(notebook[first].source) :
                notebook[first].source[k] = IMPORT_OS_LINE

\* C3: the run on the first run's output assigns no cell source, inserts no
\* import and leaves the document as the first run wrote it.
C3_Idempotent ==
    (rpc = "saved" /\ run = 2) =>
        /\ notebook = output1
        /\ mutated = {}
        /\ n_inserted = 0

\* C6: in every cell whose source the rewriter assigned, every fragment
\* except possibly the last ends with a line terminator.
C6_FragmentsTerminated ==
    \A i \in mutated :
        \A k \in 1..(Len(notebook[i].source) - 1) :
            Terminated(notebook[i].source[k])

\* C8: 'import os' is inserted at most once in a run, and only a run that
\* set os_import_added inserted it.
C8_ImportAtMostOnce ==
    /\ n_inserted <= 1
    /\ n_inserted = 1 => os_import_added

\* C8 witness: a finished run over a document with two qualifying cells,
\* one of them matching both patterns, that inserted the import once.
C8_Witness ==
    /\ FirstRunSaved
    /\ n_inserted = 1
    /\ Cardinality(ReplacedCells(input)) >= 2
    /\ \E i \in ReplacedCells(input) :
           Search1(join(input[i].source)) /\ Search2(join(input[i].source))

---------------------------------------------------------------------------
\* validate_notebook_source_format: the rules.

NEWLINE == <<"\n">>
BACKSLASH == <<"\\">>
AND_BACKSLASH == <<" ","&","&"," ","\\">>

problematic_patterns ==
    << <<<<"i","m","p","o","r","t"," ","o","s">>, <<"e","x","i","t","_","c","o","d","e">>>>,
       <<<<"i","m","p","o","r","t"," ","o","s">>, <<"e","x","i","t","_","c","o","d","e">>>>,
       <<<<"}">>, <<"c","h","e","c","k","_">>>>,
       <<<<"}">>, <<"e","c","h","o">>>>,
       <<<<"}">>, <<"f","o","r">>>>,
       <<<<"}">>, <<"d","o","n","e">>>>,
       <<<<"d","o","n","e">>, <<"e","c","h","o">>>>,
       <<<<"d","o","n","e">>, <<"f","o","r">>>>,
       <<<<"d","o","n","e">>, <<"#">>>> >>

command_keywords ==
    {<<"e","c","h","o">>, <<"i","f">>, <<"f","o","r">>, <<"w","h","i","l","e">>, <<"d","o","n","e">>, <<"f","i">>, <<"t","h","e","n">>, <<"e","l","s","e">>}

\* the loop over problematic_patterns that sets has_problem
has_problem(elem, next_elem) ==
    \E p \in 1..Len(problematic_patterns) :
        LET pattern_start == problematic_patterns[p][1]
            pattern_end == problematic_patterns[p][2]
        IN  /\ Contains(rstrip(elem), pattern_start)
            /\ Contains(lstrip(next_elem), pattern_end)
            /\ endswith(rstrip(elem), pattern_start)
            /\ startswith(lstrip(next_elem), pattern_end)

\* a mutation of MissingNewline: only the pattern table decides
MissingNewline_TableOnly(elem, next_elem) ==
    /\ strip(next_elem) # <<>>
    /\ ~endswith(elem, NEWLINE)
    /\ has_problem(elem, next_elem)

\* the conditions under which the first loop appends "missing newline"
MissingNewline(elem, next_elem) ==
    /\ strip(next_elem) # <<>>
    /\ ~endswith(elem, NEWLINE)
    /\ \/ has_problem(elem, next_elem)
       \/ strip(elem) # <<>> /\ strip(next_elem) # <<>>

\* re.search(literal + '$', s): $ matches at the end of s and before a
\* newline that ends s
SearchAtEnd(s, literal) ==
    endswith(s, literal) \/ endswith(s, literal \o NEWLINE)

\* ends_with_backslash or ends_with_and_backslash
Continues(elem) ==
    \/ SearchAtEnd(rstrip(elem), BACKSLASH)
    \/ SearchAtEnd(rstrip(elem), AND_BACKSLASH)

\* `if next_elem.strip() == ''` under a continuation
ContinuationBlank(elem, next_elem) ==
    Continues(elem) /\ strip(next_elem) = <<>>

\* a mutation of ContinuationCommand: the indentation of the next
\* fragment is not looked at
ContinuationCommand_AnyIndent(elem, next_elem) ==
    /\ Continues(elem)
    /\ strip(next_elem) # <<>>
    /\ \E kw \in command_keywords : startswith(strip(next_elem), kw)

\* the `elif` under a continuation and the keyword test inside it
ContinuationCommand(elem, next_elem) ==
    /\ Continues(elem)
    /\ strip(next_elem) # <<>>
    /\ ~startswith(next_elem, <<" ">>)
    /\ ~startswith(next_elem, <<"\t">>)
    /\ \E kw \in command_keywords : startswith(strip(next_elem), kw)

\* A diagnostic: the cell and element numbers its message prints and the
\* rule whose message it is.
Diagnostic(c, e, r) == [cell |-> c, elem |-> e, rule |-> r]

\* first loop over range(len(source) - 1); k is elem_idx + 1
RECURSIVE MissingNewlineLoop(_, _, _)
MissingNewlineLoop(c, source, k) ==
    IF k >= Len(source) THEN <<>>
    ELSE (IF MissingNewline(source[k], source[k + 1])
          THEN <<Diagnostic(c, k - 1, "missing_newline")>>
          ELSE <<>>)
         \o MissingNewlineLoop(c, source, k + 1)

\* second loop over range(len(source) - 1)
RECURSIVE ContinuationLoop(_, _, _)
ContinuationLoop(c, source, k) ==
    IF k >= Len(source) THEN <<>>
    ELSE (IF ContinuationBlank(source[k], source[k + 1])
          THEN <<Diagnostic(c, k - 1, "continuation_blank")>>
          ELSE IF ContinuationCommand(source[k], source[k + 1])
          THEN <<Diagnostic(c, k - 1, "continuation_command")>>
          ELSE <<>>)
         \o ContinuationLoop(c, source, k + 1)

\* a mutation of ListCellDiags: the continuation loop runs first
ListCellDiags_ContinuationFirst(c, source) ==
    ContinuationLoop(c, source, 1) \o MissingNewlineLoop(c, source, 1)

\* what a cell whose source is a list appends to errors
ListCellDiags(c, source) ==
    MissingNewlineLoop(c, source, 1) \o ContinuationLoop(c, source, 1)

\* loop over range(last) of the lines of a source that is one string;
\* k is i + 1, and the message prints Line i+1
RECURSIVE LineLoop(_, _, _, _)
LineLoop(c, lines, k, last) ==
    IF k > last THEN <<>>
    ELSE (IF ContinuationBlank(lines[k], lines[k + 1])
          THEN <<Diagnostic(c, k, "line_continuation_blank")>>
          ELSE <<>>)
         \o LineLoop(c, lines, k + 1, last)

\* a mutation of StrCellDiags: the loop stops one pair early
StrCellDiags_StopEarly(c, source) ==
    LET lines == split_newline(source)
    IN  LineLoop(c, lines, 1, Len(lines) - 2)

\* what a cell whose source is one string appends to errors
StrCellDiags(c, source) ==
    LET lines == split_newline(source)
    IN  LineLoop(c, lines, 1, Len(lines) - 1)

---------------------------------------------------------------------------
\* Documents given to the validator.

\* The fragments documents are built from, by name.
\*   continue   a continuation, without terminator
\*   blank      white space only, with a line break in it and none at its end
\*   indented   an indented line that starts with a keyword
\*   command    a keyword on a line of its own, also the start of a listed
\*              pattern
FragNames == {"continue", "blank", "indented", "command"}

FragText(name) ==
    CASE name = "continue" -> <<"c"," ","&","&"," ","\\">>
      [] name = "blank" -> <<"\n"," ">>
      [] name = "indented" -> <<" "," ","e","c","h","o","\n">>
      [] name = "command" -> <<"\n","d","o","n","e">>

Texts(names) == [k \in 1..Len(names) |-> FragText(names[k])]

\* The kinds of cell: a code cell whose source is a list, a code cell whose
\* source is one string (the join of its fragments), a cell that is not code.
CellKinds ==
    {[cell_type |-> "code", is_list |-> TRUE],
     [cell_type |-> "code", is_list |-> FALSE],
     [cell_type |-> "markdown", is_list |-> TRUE]}

\* what the cells that are not code hold: a continuation followed by a
\* command, which both loops would report in a code cell
MarkdownSource == <<"continue", "command">>

RECURSIVE Sum(_, _)
Sum(f, n) == IF n = 0 THEN 0 ELSE f[n] + Sum(f, n - 1)

\* The document of Len(kinds) cells that cuts the fragment names `flat` into
\* sources of the lengths `lens`. A cell's source is kept as the names of
\* its fragments.
Document(flat, kinds, lens) ==
    [i \in 1..Len(kinds) |->
        [cell_type |-> kinds[i].cell_type,
         is_list |-> kinds[i].is_list,
         source |-> SubSeq(flat, Sum(lens, i - 1) + 1, Sum(lens, i))]]

\* cell.get('source', []) when it is a list, and when it is a str
SourceList(cell) == Texts(cell.source)
SourceStr(cell) == join(Texts(cell.source))

RIdle ==
    /\ input = <<>> /\ notebook = <<>> /\ output1 = <<>> /\ run = 0
    /\ cell_i = 0 /\ needs_os_import = TRUE /\ os_import_added = FALSE
    /\ n_inserted = 0 /\ mutated = {} /\ rpc = "idle"

VInit ==
    /\ \E n \in 0..MaxFrags, m \in 0..MaxVCells :
          \E lens \in [1..m -> 0..n] :
              /\ Sum(lens, m) = n
              /\ \E flat \in [1..n -> FragNames], kinds \in [1..m -> CellKinds] :
                     /\ \A i \in 1..m :
                            kinds[i].cell_type # "code" =>
                                Document(flat, kinds, lens)[i].source = MarkdownSource
                     /\ cells = Document(flat, kinds, lens)
    /\ cell_idx = 0
    /\ errors = <<>>
    /\ vpc = "loaded"
    /\ RIdle
    /\ MIdle

\* `if not cells: return True, []`
ReturnEmpty ==
    /\ vpc = "loaded"
    /\ cells = <<>>
    /\ vpc' = "returned"
    /\ UNCHANGED <<cells, cell_idx, errors>>

EnterLoop ==
    /\ vpc = "loaded"
    /\ cells # <<>>
    /\ vpc' = "loop"
    /\ UNCHANGED <<cells, cell_idx, errors>>

\* the cell the loop is at; cell_idx counts from 0 as enumerate does
AtCell == cells[cell_idx + 1]

\* `not source`: the empty list or the empty string
EmptySource(cell) ==
    IF cell.is_list THEN SourceList(cell) = <<>> ELSE SourceStr(cell) = <<>>

\* `if cell.get('cell_type') != 'code': continue`
SkipNonCode ==
    /\ vpc = "loop"
    /\ cell_idx < Len(cells)
    /\ AtCell.cell_type # "code"
    /\ cell_idx' = cell_idx + 1
    /\ UNCHANGED <<cells, errors, vpc>>

\* `if not source: continue`
SkipEmptySource ==
    /\ vpc = "loop"
    /\ cell_idx < Len(cells)
    /\ AtCell.cell_type = "code"
    /\ EmptySource(AtCell)
    /\ cell_idx' = cell_idx + 1
    /\ UNCHANGED <<cells, errors, vpc>>

\* isinstance(source, list): both loops over the fragments
CheckListCell ==
    /\ vpc = "loop"
    /\ cell_idx < Len(cells)
    /\ AtCell.cell_type = "code"
    /\ ~EmptySource(AtCell)
    /\ AtCell.is_list
    /\ errors' = errors \o ListCellDiags(cell_idx, SourceList(AtCell))
    /\ cell_idx' = cell_idx + 1
    /\ UNCHANGED <<cells, vpc>>

\* isinstance(source, str): the loop over the lines
CheckStrCell ==
    /\ vpc = "loop"
    /\ cell_idx < Len(cells)
    /\ AtCell.cell_type = "code"
    /\ ~EmptySource(AtCell)
    /\ ~AtCell.is_list
    /\ errors' = errors \o StrCellDiags(cell_idx, SourceStr(AtCell))
    /\ cell_idx' = cell_idx + 1
    /\ UNCHANGED <<cells, vpc>>

\* `return len(errors) == 0, errors`
Return ==
    /\ vpc = "loop"
    /\ cell_idx = Len(cells)
    /\ vpc' = "returned"
    /\ UNCHANGED <<cells, cell_idx, errors>>

VNext ==
    \/ ReturnEmpty /\ UNCHANGED <<rvars, mvars>>
    \/ EnterLoop /\ UNCHANGED <<rvars, mvars>>
    \/ SkipNonCode /\ UNCHANGED <<rvars, mvars>>
    \/ SkipEmptySource /\ UNCHANGED <<rvars, mvars>>
    \/ CheckListCell /\ UNCHANGED <<rvars, mvars>>
    \/ CheckStrCell /\ UNCHANGED <<rvars, mvars>>
    \/ Return /\ UNCHANGED <<rvars, mvars>>

SpecValidate == VInit /\ [][VNext]_vars

---------------------------------------------------------------------------
\* Properties of the validator.

NonBlank(s) == \E i \in 1..Len(s) : ~IsSpace(s[i])

EndsWithNewline(s) == s # <<>> /\ s[Len(s)] = "\n"

\* what follows the last backslash of s is white space only
TrailingBackslash(s) ==
    \E j \in 1..Len(s) : s[j] = "\\" /\ \A k \in (j + 1)..Len(s) : IsSpace(s[k])

Indented(s) == s # <<>> /\ s[1] \in {" ", "\t"}

StartsCommand(s) ==
    /\ NonBlank(s)
    /\ ~Indented(s)
    /\ \E kw \in command_keywords : startswith(strip(s), kw)

\* the code cells with a non-empty list source, and with a non-empty string
ListCells ==
    {i \in 1..Len(cells) :
        cells[i].cell_type = "code" /\ cells[i].is_list /\ cells[i].source # <<>>}

StrCells ==
    {i \in 1..Len(cells) :
        cells[i].cell_type = "code" /\ ~cells[i].is_list /\ SourceStr(cells[i]) # <<>>}

\* the adjacent pairs (k, k+1) of a sequence
Pairs(seq) == 1..(Len(seq) - 1)

\* how many diagnostics of rule r name element e of cell c
Count(c, e, r) ==
    Cardinality({p \in 1..Len(errors) : errors[p] = Diagnostic(c, e, r)})

Reported(c, e, r) == Count(c, e, r) > 0

\* the diagnostics that name cell c
OfCell(c) == {p \in 1..Len(errors) : errors[p].cell = c}

\* a continuation without terminator followed by an indented non-blank line
ContinuationPair(f, k) ==
    /\ TrailingBackslash(f[k])
    /\ ~EndsWithNewline(f[k])
    /\ Indented(f[k + 1])
    /\ NonBlank(f[k + 1])

\* C4 as stated: a cell with a continuation fragment followed by an indented
\* continuation line gets no diagnostic at all.
C4_NoDiagnostics ==
    vpc = "returned" =>
        \A i \in ListCells :
            (\E k \in Pairs(cells[i].source) :
                 ContinuationPair(SourceList(cells[i]), k))
                => OfCell(i - 1) = {}

\* C4 amended: for a continuation fragment without terminator followed by
\* an indented non-blank line, the validator reports no continuation
\* diagnostic for the pair and exactly one missing-newline diagnostic.
C4_NoContinuationDiagnostic ==
    vpc = "returned" =>
        \A i \in ListCells :
            \A k \in Pairs(cells[i].source) :
                ContinuationPair(SourceList(cells[i]), k) =>
                    /\ Count(i - 1, k - 1, "continuation_blank") = 0
                    /\ Count(i - 1, k - 1, "continuation_command") = 0
                    /\ Count(i - 1, k - 1, "missing_newline") = 1

\* C4 witness: a returned run over a list cell with such a pair, whose
\* indented line starts with a keyword.
C4_Witness ==
    /\ vpc = "returned"
    /\ \E i \in ListCells :
           \E k \in Pairs(cells[i].source) :
               /\ ContinuationPair(SourceList(cells[i]), k)
               /\ StartsCommand(lstrip(SourceList(cells[i])[k + 1]))

\* C5 as stated: diagnostics come in non-decreasing cell number and, within
\* a cell, in non-decreasing element number.
C5_FragmentOrder ==
    \A p, q \in 1..Len(errors) :
        p < q =>
            /\ errors[p].cell <= errors[q].cell
            /\ errors[p].cell = errors[q].cell => errors[p].elem <= errors[q].elem

\* the loop that appends a rule's diagnostics: 1 for the first loop over a
\* cell, 2 for the second
Pass(r) == IF r = "missing_newline" THEN 1 ELSE 2

Before(d, e) ==
    \/ d.cell < e.cell
    \/ d.cell = e.cell /\ Pass(d.rule) < Pass(e.rule)
    \/ d.cell = e.cell /\ Pass(d.rule) = Pass(e.rule) /\ d.elem < e.elem

\* C5 amended: diagnostics come in increasing cell number; within a cell
\* all missing-newline diagnostics come first, in increasing element number,
\* then the continuation diagnostics, in increasing element number; so no
\* rule reports a pair twice.
C5_CellThenRuleThenFragmentOrder ==
    \A p, q \in 1..Len(errors) : p < q => Before(errors[p], errors[q])

\* C5 witness: diagnostics of two cells, and in one cell a diagnostic of the
\* first loop followed by one of the second.
C5_Witness ==
    /\ vpc = "returned"
    /\ \E p, q \in 1..Len(errors) : p < q /\ errors[p].cell < errors[q].cell
    /\ \E p, q \in 1..Len(errors) :
           /\ p < q
           /\ errors[p].cell = errors[q].cell
           /\ Pass(errors[p].rule) < Pass(errors[q].rule)

\* the numbers of the lines of a string source that end in a continuation
\* and are followed by a blank line
BlankAfterContinuation(lines) ==
    {k \in Pairs(lines) : TrailingBackslash(lines[k]) /\ ~NonBlank(lines[k + 1])}

\* C9 as stated: for a source that is one string, both cases of the
\* continuation rule are reported for adjacent lines; here the case of a
\* continuation followed by an unindented line that starts a command.
C9_BothContinuationCases ==
    vpc = "returned" =>
        \A i \in StrCells :
            LET lines == split_newline(SourceStr(cells[i]))
            IN  \A k \in Pairs(lines) :
                    (TrailingBackslash(lines[k]) /\ StartsCommand(lines[k + 1]))
                        => \E p \in OfCell(i - 1) : errors[p].elem = k

\* C9 amended: for a source that is one string the diagnostics are exactly
\* one per line that ends in a continuation and is followed by a blank
\* line; a continuation followed by a command is not reported, and no
\* missing-newline diagnostic is.
C9_OnlyBlankAfterContinuation ==
    vpc = "returned" =>
        \A i \in StrCells :
            LET lines == split_newline(SourceStr(cells[i]))
            IN  /\ {errors[p] : p \in OfCell(i - 1)} =
                       {Diagnostic(i - 1, k, "line_continuation_blank") :
                            k \in BlankAfterContinuation(lines)}
                /\ Cardinality(OfCell(i - 1)) =
                       Cardinality(BlankAfterContinuation(lines))

\* C9 witness: a string source with a continuation followed by a blank
\* line, reported.
C9_Witness ==
    /\ vpc = "returned"
    /\ \E i \in StrCells :
           /\ BlankAfterContinuation(split_newline(SourceStr(cells[i]))) # {}
           /\ OfCell(i - 1) # {}

\* C10: a missing-newline diagnostic is reported for a pair of fragments
\* exactly when the first does not end with a newline and both are not
\* blank; a pair the pattern table matches is such a pair; so a source in
\* which every fragment but the last ends with a newline gets none.
C10_MissingNewlineRule ==
    vpc = "returned" =>
        \A i \in ListCells :
            LET f == SourceList(cells[i])
            IN  /\ \A k \in Pairs(f) :
                       /\ Reported(i - 1, k - 1, "missing_newline") <=>
                              /\ ~EndsWithNewline(f[k])
                              /\ NonBlank(f[k])
                              /\ NonBlank(f[k + 1])
                       /\ has_problem(f[k], f[k + 1]) =>
                              NonBlank(f[k]) /\ NonBlank(f[k + 1])
                /\ (\A k \in Pairs(f) : EndsWithNewline(f[k])) =>
                       \A p \in OfCell(i - 1) : errors[p].rule # "missing_newline"

\* C10 witness: a list cell with a pair the pattern table matches, reported,
\* and a pair whose first fragment is blank and has no newline.
C10_Witness ==
    /\ vpc = "returned"
    /\ \E i \in ListCells :
           LET f == SourceList(cells[i])
           IN  \E k, l \in Pairs(f) :
                   /\ has_problem(f[k], f[k + 1])
                   /\ Reported(i - 1, k - 1, "missing_newline")
                   /\ ~EndsWithNewline(f[l]) /\ ~NonBlank(f[l]) /\ NonBlank(f[l + 1])

---------------------------------------------------------------------------
\* main of validate_notebook_format.py, over files described by what the two
\* validation functions read of them:
\*   json   "valid" or "invalid" (json.load raises JSONDecodeError)
\*   cells  "list", "absent" (no 'cells' key), "falsy" (not a list, and false
\*          in a condition: null, 0, "", {}), "truthy" (not a list, and true
\*          in a condition: 5, "abc", {"a": 1})
\*   diags  the number of diagnostics the format validation collects

Files ==
    {[json |-> "invalid", cells |-> "absent", diags |-> 0]}
        \cup [json : {"valid"}, cells : {"absent", "falsy", "truthy"}, diags : {0}]
        \cup [json : {"valid"}, cells : {"list"}, diags : 0..MaxDiags]

\* validate_notebook_structure: the number of errors it returns
StructureErrors(file) ==
    IF file.json = "invalid" THEN 1
    ELSE (IF file.cells = "absent" THEN 1 ELSE 0)
             + (IF file.cells \in {"falsy", "truthy"} THEN 1 ELSE 0)

\* validate_notebook_source_format raises: enumerate(cells) or cell.get
\* fails on a value that is not a list of cells and that `not cells` let by
FormatRaises(file) == file.json = "valid" /\ file.cells = "truthy"

\* validate_notebook_source_format: the number of errors it returns
FormatErrors(file) ==
    IF file.json = "invalid" THEN 1
    ELSE IF file.cells \in {"absent", "falsy"} THEN 0
    ELSE file.diags

MInit ==
    /\ \E n \in 0..MaxFiles : notebook_files \in [1..n -> Files]
    /\ skip_structure_check \in BOOLEAN
    /\ file_i = 1
    /\ all_valid = TRUE
    /\ total_errors = 0
    /\ reports = <<>>
    /\ exit_status = -1
    /\ mpc = "start"
    /\ RIdle
    /\ VIdle

\* `if not notebook_files: ... sys.exit(1)`
NoFiles ==
    /\ mpc = "start"
    /\ notebook_files = <<>>
    /\ exit_status' = 1
    /\ mpc' = "exited"
    /\ UNCHANGED <<notebook_files, skip_structure_check, file_i, all_valid,
                   total_errors, reports>>

StartLoop ==
    /\ mpc = "start"
    /\ notebook_files # <<>>
    /\ mpc' = "loop"
    /\ UNCHANGED <<notebook_files, skip_structure_check, file_i, all_valid,
                   total_errors, reports, exit_status>>

AtFile == notebook_files[file_i]

StructureChecked(file) ==
    ~skip_structure_check /\ StructureErrors(file) > 0

\* the structure validation fails: report and `continue`
StructureFailed ==
    /\ mpc = "loop"
    /\ file_i <= Len(notebook_files)
    /\ StructureChecked(AtFile)
    /\ all_valid' = FALSE
    /\ total_errors' = total_errors + StructureErrors(AtFile)
    /\ reports' = Append(reports, [file |-> file_i, outcome |-> "structure_failed"])
    /\ file_i' = file_i + 1
    /\ UNCHANGED <<notebook_files, skip_structure_check, exit_status, mpc>>

\* `if format_valid:`
FormatPassed ==
    /\ mpc = "loop"
    /\ file_i <= Len(notebook_files)
    /\ ~StructureChecked(AtFile)
    /\ ~FormatRaises(AtFile)
    /\ FormatErrors(AtFile) = 0
    /\ reports' = Append(reports, [file |-> file_i, outcome |-> "passed"])
    /\ file_i' = file_i + 1
    /\ UNCHANGED <<notebook_files, skip_structure_check, all_valid,
                   total_errors, exit_status, mpc>>

\* `else:` of `if format_valid:`
FormatFailed ==
    /\ mpc = "loop"
    /\ file_i <= Len(notebook_files)
    /\ ~StructureChecked(AtFile)
    /\ ~FormatRaises(AtFile)
    /\ FormatErrors(AtFile) > 0
    /\ all_valid' = FALSE
    /\ total_errors' = total_errors + FormatErrors(AtFile)
    /\ reports' = Append(reports, [file |-> file_i, outcome |-> "format_failed"])
    /\ file_i' = file_i + 1
    /\ UNCHANGED <<notebook_files, skip_structure_check, exit_status, mpc>>

\* the exception validate_notebook_source_format raised is caught nowhere:
\* the interpreter prints the traceback and exits with status 1
Uncaught ==
    /\ mpc = "loop"
    /\ file_i <= Len(notebook_files)
    /\ ~StructureChecked(AtFile)
    /\ FormatRaises(AtFile)
    /\ exit_status' = 1
    /\ mpc' = "exited"
    /\ UNCHANGED <<notebook_files, skip_structure_check, file_i, all_valid,
                   total_errors, reports>>

\* the summary and sys.exit
Summary ==
    /\ mpc = "loop"
    /\ file_i > Len(notebook_files)
    /\ exit_status' = IF all_valid THEN 0 ELSE 1
    /\ mpc' = "exited"
    /\ UNCHANGED <<notebook_files, skip_structure_check, file_i, all_valid,
                   total_errors, reports>>

MNext ==
    \/ NoFiles /\ UNCHANGED <<rvars, vvars>>
    \/ StartLoop /\ UNCHANGED <<rvars, vvars>>
    \/ StructureFailed /\ UNCHANGED <<rvars, vvars>>
    \/ FormatPassed /\ UNCHANGED <<rvars, vvars>>
    \/ FormatFailed /\ UNCHANGED <<rvars, vvars>>
    \/ Uncaught /\ UNCHANGED <<rvars, vvars>>
    \/ Summary /\ UNCHANGED <<rvars, vvars>>

SpecMain == MInit /\ [][MNext]_vars

\* a file that is malformed JSON or lacks a list of cells
Defective(file) == file.json = "invalid" \/ file.cells # "list"

\* the file at which an uncaught exception ended the run, if any
RaisedAt(i) == mpc = "exited" /\ file_i = i /\ i <= Len(notebook_files)

\* C7: when the run has ended, every file listed after a defective file was
\* validated and reported, with either setting of --skip-structure-check,
\* and the exit status is 1 exactly when a file failed (was reported as
\* failed, or its validation raised).
C7_BatchIsolation ==
    (mpc = "exited" /\ notebook_files # <<>>) =>
        /\ \A i, j \in 1..Len(notebook_files) :
               (Defective(notebook_files[i]) /\ i < j) =>
                   \E p \in 1..Len(reports) : reports[p].file = j
        /\ exit_status = 1 <=>
               \/ \E p \in 1..Len(reports) : reports[p].outcome # "passed"
               \/ \E i \in 1..Len(notebook_files) : RaisedAt(i)

---------------------------------------------------------------------------
\* The three programs side by side: a behaviour is a run of one of them.

Init == RInit \/ VInit \/ MInit

Next == RNext \/ VNext \/ MNext

Spec == Init /\ [][Next]_vars

===========================================================================
